---- MODULE Spec2Model ----
(***************************************************************************)
(* Model of the media formatter (file_formatter.py, JellyfinFormatter):    *)
(* the name parser, the pruner, the subtitle organizer and the directory   *)
(* walk, over an in-memory file system.  Names are strings; a path is a    *)
(* sequence of names below the base directory.                             *)
(***************************************************************************)
EXTENDS Integers, Sequences, FiniteSets, TLC

(***************************************************************************)
(* Strings.  The recursive helpers are functions, so that TLC evaluates    *)
(* their arguments once.                                                   *)
(***************************************************************************)

\* s[k] of a Python string (1-based here)
Ch(s, k) == SubSeq(s, k, k)

UpperCase == <<"A","B","C","D","E","F","G","H","I","J","K","L","M",
               "N","O","P","Q","R","S","T","U","V","W","X","Y","Z">>
LowerCase == <<"a","b","c","d","e","f","g","h","i","j","k","l","m",
               "n","o","p","q","r","s","t","u","v","w","x","y","z">>

LowerCh(c) ==
    IF \E k \in 1..26 : UpperCase[k] = c
    THEN LowerCase[CHOOSE k \in 1..26 : UpperCase[k] = c]
    ELSE c

\* str.lower()
lower[str \in STRING] ==
    IF str = "" THEN "" ELSE LowerCh(Head(str)) \o lower[Tail(str)]

\* str[k + j - 1 ...] and lit[j ...] agree, ignoring the case of str
SameFrom[str \in STRING, k \in Nat, lit \in STRING, j \in Nat] ==
    \/ j > Len(lit)
    \/ /\ LowerCh(Ch(str, k + j - 1)) = Ch(lit, j)
       /\ SameFrom[str, k, lit, j + 1]

\* str[k:] starts with lit, compared case-insensitively (re.IGNORECASE); lit is
\* lowercase
StartsWithAt(str, k, lit) ==
    /\ k + Len(lit) - 1 <= Len(str)
    /\ SameFrom[str, k, lit, 1]

\* str.rfind(c) at or before position k; 0 when absent
RFind[str \in STRING, c \in STRING, k \in Nat] ==
    IF k = 0 THEN 0
    ELSE IF Ch(str, k) = c THEN k ELSE RFind[str, c, k - 1]

\* PurePath.suffix: the last dot and what follows, unless the dot is first or last
SuffixAt(name, k) == IF 1 < k /\ k < Len(name) THEN SubSeq(name, k, Len(name)) ELSE ""
suffix(name) == SuffixAt(name, RFind[name, ".", Len(name)])

\* PurePath.stem
StemAt(name, k) == IF 1 < k /\ k < Len(name) THEN SubSeq(name, 1, k - 1) ELSE name
stem(name) == StemAt(name, RFind[name, ".", Len(name)])

IsSpace(c) == c = " "
IsDigit(c) == c \in {"0","1","2","3","4","5","6","7","8","9"}

\* the position after a greedy \s* starting at k
SkipSpace[str \in STRING, k \in Nat] ==
    IF k <= Len(str) /\ IsSpace(Ch(str, k)) THEN SkipSpace[str, k + 1] ELSE k

\* the position after a greedy [._]* starting at k
SkipDots[str \in STRING, k \in Nat] ==
    IF k <= Len(str) /\ Ch(str, k) \in {".", "_"} THEN SkipDots[str, k + 1] ELSE k

\* the first position >= k where lit occurs (case-insensitively); 0 when none
FindFrom[str \in STRING, k \in Nat, lit \in STRING] ==
    IF k + Len(lit) - 1 > Len(str) THEN 0
    ELSE IF StartsWithAt(str, k, lit) THEN k ELSE FindFrom[str, k + 1, lit]

(***************************************************************************)
(* Regular expressions of extract_title_year, as data.  MatchAt gives the  *)
(* position after the match that starts exactly at k, or 0.                *)
(***************************************************************************)

Patterns == [kind : STRING, tok : STRING, alts : Seq(STRING), repl : STRING]

Bracket(tok) == [kind |-> "bracket", tok |-> tok, alts |-> <<>>, repl |-> ""]
Literal(alts) == [kind |-> "literal", tok |-> "", alts |-> alts, repl |-> ""]

\* self.release_patterns, in order
release_patterns == <<
    Bracket("yts"), Bracket("rarbg"), Bracket("1080p"), Bracket("720p"),
    Bracket("480p"), Bracket("webrip"), Bracket("bluray"), Bracket("brrip"),
    Bracket("hdrip"), Bracket("dvdrip"), Bracket("x264"), Bracket("x265"),
    Bracket("hevc"), Bracket("5.1"), Bracket("aac"),
    Literal(<<".1080p.">>), Literal(<<".720p.">>), Literal(<<".480p.">>),
    Literal(<<".webrip.">>), Literal(<<".bluray.">>), Literal(<<".brrip.">>),
    Literal(<<".hdrip.">>), Literal(<<".dvdrip.">>), Literal(<<".x264.">>),
    Literal(<<".x265.">>), Literal(<<".hevc.">>),
    Literal(<<".aac5.1", ".aac.1">>),
    Literal(<<"-[yts.mx]">>), Literal(<<"-rarbg">>), Literal(<<".yts.mx">>),
    Literal(<<".rarbg">>) >>

\* r"\s*\(\s*\(\s*" -> " ("
OpenParens == [kind |-> "open2", tok |-> "", alts |-> <<>>, repl |-> " ("]
\* r"\s*\)\s*\)\s*" -> ") "
CloseParens == [kind |-> "close2", tok |-> "", alts |-> <<>>, repl |-> ") "]
\* r"[._]+" -> " "
DotRun == [kind |-> "dots", tok |-> "", alts |-> <<>>, repl |-> " "]
\* r"\s+" -> " "
SpaceRun == [kind |-> "spaces", tok |-> "", alts |-> <<>>, repl |-> " "]

\* "C\s*" at position b
SecondOf(str, b, c) ==
    IF b <= Len(str) /\ Ch(str, b) = c THEN SkipSpace[str, b + 1] ELSE 0

\* "C\s*C\s*" at position a
FirstOf(str, a, c) ==
    IF a <= Len(str) /\ Ch(str, a) = c THEN SecondOf(str, SkipSpace[str, a + 1], c) ELSE 0

\* two of the same parenthesis, each preceded and followed by optional spaces
MatchTwo(str, k, c) == FirstOf(str, SkipSpace[str, k], c)

\* ".*?\]" from position j, the end of TOK (0: there was no TOK)
BracketEnd(str, j) ==
    IF j = 0 \/ FindFrom[str, j, "]"] = 0 THEN 0 ELSE FindFrom[str, j, "]"] + 1

\* where the first TOK at or after j ends (0: none)
TokEnd(j, tok) == IF j = 0 THEN 0 ELSE j + Len(tok)

\* \[.*?TOK.*?\] : lazy, so the first TOK after the bracket, then the first "]"
MatchBracket(str, k, tok) ==
    IF k <= Len(str) /\ Ch(str, k) = "["
    THEN BracketEnd(str, TokEnd(FindFrom[str, k + 1, tok], tok))
    ELSE 0

\* the first alternative (from the a-th on) that matches at k
MatchLiteralFrom[str \in STRING, k \in Nat, alts \in Seq(STRING), a \in Nat] ==
    IF a > Len(alts) THEN 0
    ELSE IF StartsWithAt(str, k, alts[a]) THEN k + Len(alts[a])
    ELSE MatchLiteralFrom[str, k, alts, a + 1]

MatchLiteral(str, k, alts) == MatchLiteralFrom[str, k, alts, 1]

MatchAt(pat, str, k) ==
    CASE pat.kind = "bracket" -> MatchBracket(str, k, pat.tok)
      [] pat.kind = "literal" -> MatchLiteral(str, k, pat.alts)
      [] pat.kind = "open2"   -> MatchTwo(str, k, "(")
      [] pat.kind = "close2"  -> MatchTwo(str, k, ")")
      [] pat.kind = "dots"    -> IF SkipDots[str, k] > k THEN SkipDots[str, k] ELSE 0
      [] pat.kind = "spaces"  -> IF SkipSpace[str, k] > k THEN SkipSpace[str, k] ELSE 0

\* the substitution from position k on; e is the end of the match at k (or 0)
SubFrom[pat \in Patterns, str \in STRING, k \in Nat] ==
    IF k > Len(str) THEN ""
    ELSE IF MatchAt(pat, str, k) > k
    THEN pat.repl \o SubFrom[pat, str, MatchAt(pat, str, k)]
    ELSE Ch(str, k) \o SubFrom[pat, str, k + 1]

\* re.sub(pattern, repl, s): every non-overlapping match, leftmost first
re_sub(pat, str) == SubFrom[pat, str, 1]

LStrip[str \in STRING, chars \in SUBSET STRING] ==
    IF str /= "" /\ Head(str) \in chars THEN LStrip[Tail(str), chars] ELSE str

RStrip[str \in STRING, chars \in SUBSET STRING] ==
    IF str /= "" /\ Ch(str, Len(str)) \in chars
    THEN RStrip[SubSeq(str, 1, Len(str) - 1), chars]
    ELSE str

\* str.strip(chars)
strip(str, chars) == RStrip[LStrip[str, chars], chars]

TrimChars == {" ", ".", "-", "_", "(", ")", "[", "]", "{", "}"}

\* title after the first p passes of
\* "for pattern in self.release_patterns: title = re.sub(pattern, "", title)"
RemoveNoiseUpTo[title \in STRING, p \in Nat] ==
    IF p = 0 THEN title
    ELSE re_sub(release_patterns[p], RemoveNoiseUpTo[title, p - 1])

RemoveNoise(title) == RemoveNoiseUpTo[title, Len(release_patterns)]

\* the title clean-up shared by both branches of extract_title_year
CleanTitle(raw) ==
    strip(strip(re_sub(SpaceRun, re_sub(DotRun, RemoveNoise(strip(raw, {" "})))),
                {" "}),
          TrimChars)

\* "\s*\)" at position c: the closing parenthesis after the year
ClosesAt(name, c) == c <= Len(name) /\ Ch(name, c) = ")"

\* "((19|20)\d{2})\s*\)" (n = 4) or "(19|20)\s*\)" (n = 2) at position b: the
\* year text, or "" when it does not match
YearDigits(name, b, n) ==
    IF /\ b + n - 1 <= Len(name)
       /\ SubSeq(name, b, b + 1) \in {"19", "20"}
       /\ \A k \in b..(b + n - 1) : IsDigit(Ch(name, k))
       /\ ClosesAt(name, SkipSpace[name, b + n])
    THEN SubSeq(name, b, b + n - 1)
    ELSE ""

\* "\(\s*" at position a, then the year
YearGroup(name, a, n) ==
    IF a <= Len(name) /\ Ch(name, a) = "("
    THEN YearDigits(name, SkipSpace[name, a + 1], n)
    ELSE ""

\* "\s*\(\s*<year>\s*\)" right after a title of t characters
YearAt(name, t, n) == YearGroup(name, SkipSpace[name, t + 1], n)

\* "^(.+?)<year group>.*$": the length of the shortest non-empty title that a
\* year group follows, or 0 when the pattern does not match
TitleLen[name \in STRING, n \in Nat] ==
    IF \E t \in 1..Len(name) : YearAt(name, t, n) /= ""
    THEN CHOOSE t \in 1..Len(name) :
            /\ YearAt(name, t, n) /= ""
            /\ \A k \in 1..(t - 1) : YearAt(name, k, n) = ""
    ELSE 0

NoMatch == [title |-> "", year |-> ""]

\* "return (title, year_full) if title else None"
TitleYear[title \in STRING, year_full \in STRING] ==
    IF title = "" THEN NoMatch ELSE [title |-> title, year |-> year_full]

\* the two searches of extract_title_year on the repaired name; t4 and t2 are
\* the title lengths of the 4-digit and of the truncated match
SearchYear[name \in STRING, t4 \in Nat, t2 \in Nat] ==
    IF t4 > 0
    THEN TitleYear[CleanTitle(SubSeq(name, 1, t4)), YearAt(name, t4, 4)]
    ELSE IF t2 > 0
    THEN TitleYear[CleanTitle(SubSeq(name, 1, t2)),
                   IF YearAt(name, t2, 2) = "19" THEN "1999" ELSE "2020"]
    ELSE NoMatch

\* the name after the two repairs of doubled parentheses
RepairedName(filename) == re_sub(CloseParens, re_sub(OpenParens, stem(filename)))

\* extract_title_year(filename): (title, year), or NoMatch for None
ParseName[name \in STRING] == SearchYear[name, TitleLen[name, 4], TitleLen[name, 2]]
extract_title_year(filename) == ParseName[RepairedName(filename)]

\* the truncated-year branch is taken, which prints a warning
TruncatedName[name \in STRING] == TitleLen[name, 4] = 0 /\ TitleLen[name, 2] > 0
truncated_year(filename) == TruncatedName[RepairedName(filename)]

\* format_name(title, year)
format_name(title, year) == title \o " (" \o year \o ")"

\* str(k) for k >= 0
IntStr[k \in Nat] ==
    IF k < 10 THEN Ch("0123456789", k + 1)
    ELSE IntStr[k \div 10] \o Ch("0123456789", (k % 10) + 1)

\* the characters of the names, in code-point order
CodePoints == " ()-.0123456789ABCDEFGHIJKLMNOPQRSTUVWXYZ[]_abcdefghijklmnopqrstuvwxyz{}"

\* ord(c), up to an order-preserving renumbering
Ord(c) ==
    IF \E k \in 1..Len(CodePoints) : Ch(CodePoints, k) = c
    THEN CHOOSE k \in 1..Len(CodePoints) : Ch(CodePoints, k) = c
    ELSE 0

\* a < b for Python strings
StrLess[a \in STRING, b \in STRING] ==
    IF b = "" THEN FALSE
    ELSE IF a = "" THEN TRUE
    ELSE IF Head(a) = Head(b) THEN StrLess[Tail(a), Tail(b)]
    ELSE Ord(Head(a)) < Ord(Head(b))

video_extensions == {".mp4", ".mkv", ".avi", ".mov", ".wmv", ".flv", ".webm", ".m4v"}
subtitle_extensions == {".srt", ".sub", ".ass", ".ssa", ".vtt", ".idx", ".sup"}
unwanted_extensions == {".txt", ".url", ".lnk", ".nfo", ".jpg", ".jpeg", ".png",
                        ".gif", ".bmp", ".exe", ".msi", ".zip", ".rar", ".7z"}

(***************************************************************************)
(* The file system: a function from paths (sequences of names below the    *)
(* base directory) to [kind, id].  id is the identity of the file's        *)
(* content; a directory lists its entries in increasing id, which stands   *)
(* for the arbitrary but repeatable order of os.scandir.                   *)
(***************************************************************************)

Base == <<>>
Parent(p) == SubSeq(p, 1, Len(p) - 1)
NameOf(p) == p[Len(p)]
IsUnder(q, p) == Len(q) > Len(p) /\ SubSeq(q, 1, Len(p)) = p

exists(f, p) == p = Base \/ p \in DOMAIN f
is_file(f, p) == p \in DOMAIN f /\ f[p].kind = "file"
is_dir(f, p) == p = Base \/ (p \in DOMAIN f /\ f[p].kind = "dir")

Children(f, p) == {q \in DOMAIN f : Parent(q) = p}

RECURSIVE Listing(_, _)
Listing(f, S) ==
    IF S = {} THEN <<>>
    ELSE LET m == CHOOSE q \in S : \A r \in S : f[q].id <= f[r].id
         IN  <<m>> \o Listing(f, S \ {m})

\* Path.iterdir()
iterdir(f, p) == Listing(f, Children(f, p))

\* a listing that does not descend into subdirectories
rglob_flat(f, p) == iterdir(f, p)

RECURSIVE rglob(_, _)
RECURSIVE RglobEach(_, _)
\* Path.rglob("*"): the entries of p, then those of each subdirectory in turn
rglob(f, p) == iterdir(f, p) \o RglobEach(f, iterdir(f, p))
RglobEach(f, ps) ==
    IF ps = <<>> THEN <<>>
    ELSE (IF is_dir(f, Head(ps)) THEN rglob(f, Head(ps)) ELSE <<>>)
         \o RglobEach(f, Tail(ps))

Failed(f) == [ok |-> FALSE, fs |-> f]
Done(f) == [ok |-> TRUE, fs |-> f]

\* src and everything under it now at dst; an entry that was at dst is replaced
Relocate(f, src, dst) ==
    LET moved == {q \in DOMAIN f : q = src \/ IsUnder(q, src)}
        kept == (DOMAIN f \ moved) \ {dst}
        target(q) == dst \o SubSeq(q, Len(src) + 1, Len(q))
        origin(q) == src \o SubSeq(q, Len(dst) + 1, Len(q))
    IN  [q \in kept \cup {target(m) : m \in moved} |->
            IF q \in kept THEN f[q] ELSE f[origin(q)]]

\* may os.rename put src on an existing dst?  POSIX replaces a file by a file
\* and an empty directory by a directory; Windows raises FileExistsError
MayReplace(f, src, dst, posix) ==
    /\ posix
    /\ \/ is_file(f, src) /\ is_file(f, dst)
       \/ is_dir(f, src) /\ is_dir(f, dst) /\ Children(f, dst) = {}

\* os.rename(src, dst) / Path.rename
os_rename(f, src, dst, posix) ==
    IF /\ src \in DOMAIN f
       /\ is_dir(f, Parent(dst))
       /\ (dst \in DOMAIN f /\ dst /= src) => MayReplace(f, src, dst, posix)
    THEN Done(Relocate(f, src, dst))
    ELSE Failed(f)

\* a move that reports success and leaves the file where it was
shutil_stay(f, src, dst, posix) == Done(f)

\* shutil.move(src, dst): os.rename, and when that raises OSError, copy2 over
\* the destination followed by unlink of the source
shutil_move(f, src, dst, posix) ==
    LET real_dst == IF is_dir(f, dst) THEN Append(dst, NameOf(src)) ELSE dst
        r == os_rename(f, src, real_dst, posix)
    IN  IF is_dir(f, dst) /\ exists(f, real_dst) THEN Failed(f)
        ELSE IF r.ok THEN r
        ELSE IF is_file(f, src) /\ is_dir(f, Parent(real_dst)) /\ ~is_dir(f, real_dst)
        THEN Done(Relocate(f, src, real_dst))
        ELSE Failed(f)

\* Path.unlink()
unlink(f, p) ==
    IF is_file(f, p) THEN Done([q \in DOMAIN f \ {p} |-> f[q]]) ELSE Failed(f)

\* Path.mkdir(exist_ok=True)
mkdir(f, p) ==
    IF is_dir(f, p) THEN Done(f)
    ELSE IF exists(f, p) \/ ~is_dir(f, Parent(p)) THEN Failed(f)
    ELSE Done([q \in DOMAIN f \cup {p} |->
                  IF q = p THEN [kind |-> "dir", id |-> 0] ELSE f[q]])

is_video(f, p) == is_file(f, p) /\ lower[suffix(NameOf(p))] \in video_extensions
is_subtitle(f, p) == is_file(f, p) /\ lower[suffix(NameOf(p))] \in subtitle_extensions
is_unwanted(f, p) == is_file(f, p) /\ lower[suffix(NameOf(p))] \in unwanted_extensions

RECURSIVE InsertCased(_, _, _)
\* the insert of a sort on (is_file, name): upper case before lower case
InsertCased(f, sorted, p) ==
    LET before(a, b) ==
            \/ is_dir(f, a) /\ is_file(f, b)
            \/ /\ is_file(f, a) = is_file(f, b)
               /\ StrLess[NameOf(a), NameOf(b)]
    IN  IF sorted = <<>> THEN <<p>>
        ELSE IF before(p, Head(sorted)) THEN <<p>> \o sorted
        ELSE <<Head(sorted)>> \o InsertCased(f, Tail(sorted), p)

RECURSIVE InsertSorted(_, _, _)
\* the position-preserving insert of a stable sort on (is_file, name.lower())
InsertSorted(f, sorted, p) ==
    LET before(a, b) ==
            \/ is_dir(f, a) /\ is_file(f, b)
            \/ /\ is_file(f, a) = is_file(f, b)
               /\ StrLess[lower[NameOf(a)], lower[NameOf(b)]]
    IN  IF sorted = <<>> THEN <<p>>
        ELSE IF before(p, Head(sorted)) THEN <<p>> \o sorted
        ELSE <<Head(sorted)>> \o InsertSorted(f, Tail(sorted), p)

RECURSIVE SortItems(_, _)
\* items.sort(key=lambda x: (x.is_file(), x.name.lower()))
SortItems(f, ps) ==
    IF ps = <<>> THEN <<>>
    ELSE InsertSorted(f, SortItems(f, SubSeq(ps, 1, Len(ps) - 1)), ps[Len(ps)])

(***************************************************************************)
(* Bounds and the trees a run starts from                                  *)
(***************************************************************************)

MaxVideos == 3      \* direct-child video files of the movie folder
MaxSubs == 3        \* direct-child subtitle files of the movie folder
MaxDepth == 3       \* nesting depth of files below the movie folder
MaxFaults == 1      \* I/O errors (permission, in use) injected in one behaviour

VideoFile(k) == "v" \o IntStr[k] \o (IF k % 3 = 0 THEN ".AVI" ELSE ".mkv")
SubtitleFile(k) == "s" \o IntStr[k] \o (IF k % 3 = 0 THEN ".SUB" ELSE ".srt")

\* names of the movie folder: canonical, noisy, noise nested in noise, no year,
\* truncated year
FolderNames == {"A (2020)", "A (2020) [YTS]", "A-RA-RARBGRBG (2020)", "stuff", "B (19)"}

Dir(p) == [path |-> p, kind |-> "dir"]
File(p) == [path |-> p, kind |-> "file"]
\* a dangling symbolic link: neither is_file() nor is_dir()
Link(p) == [path |-> p, kind |-> "link"]

RECURSIVE Chain(_, _)
\* d nested directories below p, a text file in each, a video and an archive
\* in the innermost
Chain(p, d) ==
    IF d = 0 THEN <<>>
    ELSE <<Dir(Append(p, "sub")), File(p \o <<"sub", "e.txt">>)>>
         \o (IF d = 1
             THEN <<File(p \o <<"sub", "k.mkv">>), File(p \o <<"sub", "r.RAR">>)>>
             ELSE Chain(Append(p, "sub"), d - 1))

\* what else there is, in the movie folder p or next to it
Layouts == {"none", "junk", "subs", "deep", "subsfile", "twin", "emptytwin", "loose"}

LayoutEntries(p, x) ==
    CASE x = "none" -> <<>>
      [] x = "junk" -> <<File(Append(p, "n.nfo")), File(Append(p, "p.JPG")),
                         Link(Append(p, "l.txt"))>>
      [] x = "subs" -> <<File(Append(p, "n.nfo")), Dir(Append(p, "Subs")),
                         File(p \o <<"Subs", "t.txt">>),
                         File(p \o <<"Subs", "A (2020)..srt">>)>>
      [] x = "deep" -> Chain(p, MaxDepth - 1)
      [] x = "subsfile" -> <<File(Append(p, "Subs"))>>
      [] x = "twin" -> <<Dir(<<"A (2020)">>), File(<<"A (2020)", "m.mkv">>)>>
      [] x = "emptytwin" -> <<Dir(<<"A (2020)">>)>>
      [] x = "loose" -> <<File(<<"B (1999) [720p].mkv">>), File(<<"B (1999).mkv">>),
                          File(<<"readme.txt">>), File(<<"clip.mkv">>),
                          Link(<<"dangling">>), File(<<"a.txt">>)>>

MovieEntries(name, nv, ns, x) ==
    <<Dir(<<name>>)>>
    \o [k \in 1..nv |-> File(<<name, VideoFile(k)>>)]
    \o [k \in 1..ns |-> File(<<name, SubtitleFile(k)>>)]
    \o LayoutEntries(<<name>>, x)

\* the entries in creation order; an entry created twice keeps its first place
Tree(es) ==
    LET first(p) == CHOOSE k \in 1..Len(es) :
                        es[k].path = p /\ \A j \in 1..(k - 1) : es[j].path /= p
    IN  [p \in {es[k].path : k \in 1..Len(es)} |->
            [kind |-> es[first(p)].kind, id |-> first(p)]]

(***************************************************************************)
(* State                                                                   *)
(***************************************************************************)

VARIABLES
    fs,              \* the file system below base_path
    dry_run,         \* self.dry_run
    posix,           \* TRUE on POSIX, FALSE on Windows
    run,             \* 1 or 2: process_directory is run twice on the tree
    pc,              \* where the run is
    items, i,        \* process_directory: the sorted items and the loop index
    folder_path,     \* process_folder_contents: the folder being processed
    folder_name,     \* ... and the name its files get
    unwanted, u,     \* remove_unwanted_files: the files to delete, loop index
    removed_files,   \* remove_unwanted_files: the list it returns
    video_files, v,  \* process_folder_contents: the videos, loop index
    subtitle_files, s, \* organize_subtitles: the subtitles, loop index
    log,             \* what this run has reported, in order
    errors,          \* exceptions caught and reported in this run
    faults,          \* I/O errors injected so far
    fs0, fs1, log1,  \* the tree at the start, and tree and report after run 1
    first_dry,       \* dry_run of the first run
    entered,         \* the tree when process_folder_contents was last entered
    steps,           \* what process_folder has done for its folder, in order
    calls            \* the calls of this run: handlers and file-system calls

vars == <<fs, dry_run, posix, run, pc, items, i, folder_path, folder_name,
          unwanted, u, removed_files, video_files, v, subtitle_files, s,
          log, errors, faults, fs0, fs1, log1, first_dry, entered, steps, calls>>

Init ==
    \E name \in FolderNames, nv \in 0..MaxVideos, ns \in 0..MaxSubs,
       x \in Layouts, d \in BOOLEAN, px \in BOOLEAN :
        /\ fs = Tree(MovieEntries(name, nv, ns, x))
        /\ fs0 = fs
        /\ dry_run = d /\ first_dry = d
        /\ posix = px
        /\ run = 1
        /\ pc = "start"
        /\ items = <<>> /\ i = 1
        /\ folder_path = <<>> /\ folder_name = ""
        /\ unwanted = <<>> /\ u = 1 /\ removed_files = <<>>
        /\ video_files = <<>> /\ v = 1
        /\ subtitle_files = <<>> /\ s = 1
        /\ log = <<>> /\ errors = 0 /\ faults = 0
        /\ fs1 = fs /\ log1 = <<>>
        /\ entered = fs /\ steps = <<>> /\ calls = <<>>

(***************************************************************************)
(* Reports and outcomes                                                    *)
(***************************************************************************)

\* one reported fact: print_action (rename, move, delete), "already formatted"
\* (ok), "no year found" / "could not extract year" (noyear), truncated-year
\* warning (warn); done says whether the operation was carried out
Report(op, old, new, done) == [op |-> op, old |-> old, new |-> new, done |-> done]

\* one call: of a handler on an item, or of a file-system function on a path
Call(op, src, ok) == [op |-> op, src |-> src, ok |-> ok]

\* the choices of the environment for one mutating call: FALSE, and TRUE (the
\* call raises) in the first run while the budget of injected errors lasts
Faulty == IF ~dry_run /\ run = 1 /\ faults < MaxFaults THEN {FALSE, TRUE} ELSE {FALSE}

\* the call made whatever self.dry_run says
Unguarded(r, fault) ==
    IF fault THEN [ok |-> FALSE, done |-> FALSE, fs |-> fs]
    ELSE [ok |-> r.ok, done |-> r.ok, fs |-> r.fs]

\* "if not self.dry_run: try: <call> except Exception: print(error)"
\* r is what the call does to the file system when nothing is injected
Guarded(r, fault) ==
    IF dry_run THEN [ok |-> TRUE, done |-> FALSE, fs |-> fs]
    ELSE IF fault THEN [ok |-> FALSE, done |-> FALSE, fs |-> fs]
    ELSE [ok |-> r.ok, done |-> r.ok, fs |-> r.fs]

\* a loop that drops the item after the one whose call raised
SkipAfterError(k, ok) == IF ok THEN k + 1 ELSE k + 2

\* "for ... : try: <call> except Exception as e: print(...)": the loop takes
\* the item after the k-th whether or not the call raised
NextItem(k, ok) == k + 1

\* the file-system call behind "if not self.dry_run", when it is made
Made(op, src, r) == IF dry_run THEN <<>> ELSE <<Call(op, src, r.ok)>>

Warnings(filename) ==
    IF truncated_year(filename) THEN <<Report("warn", filename, "", FALSE)>> ELSE <<>>

\* the locals of process_folder_contents and of the functions it calls; they
\* keep their last values between two folders
UnchangedContents ==
    UNCHANGED <<folder_path, folder_name, unwanted, u, removed_files,
                video_files, v, subtitle_files, s>>
UnchangedRun == UNCHANGED <<dry_run, posix, run, fs0, fs1, log1, first_dry>>

(***************************************************************************)
(* process_directory                                                       *)
(***************************************************************************)

\* items = list(base_path.iterdir()); items.sort(...)
process_directory ==
    /\ pc = "start"
    /\ items' = SortItems(fs, iterdir(fs, Base))
    /\ i' = 1
    /\ pc' = "items"
    /\ UNCHANGED <<fs, log, errors, faults, entered, steps, calls>>
    /\ UnchangedContents /\ UnchangedRun

\* an item that is neither a file nor a directory
skip_item ==
    /\ pc = "items" /\ i <= Len(items)
    /\ ~is_file(fs, items[i]) /\ ~is_dir(fs, items[i])
    /\ i' = i + 1
    /\ UNCHANGED <<fs, pc, items, log, errors, faults, entered, steps, calls>>
    /\ UnchangedContents /\ UnchangedRun

process_file ==
    /\ pc = "items" /\ i <= Len(items)
    /\ is_file(fs, items[i])
    /\ LET file_path == items[i]
           name == NameOf(file_path)
           title_year == extract_title_year(name)
           new_name == format_name(title_year.title, title_year.year) \o suffix(name)
           new_path == Append(Parent(file_path), new_name)
           called == Append(calls, Call("process_file", file_path, TRUE))
       IN  IF lower[suffix(name)] \notin video_extensions
           THEN /\ calls' = called
                /\ i' = i + 1
                /\ UNCHANGED <<fs, log, errors, faults>>
           ELSE IF title_year = NoMatch
           THEN /\ log' = log \o Warnings(name) \o <<Report("noyear", name, "", FALSE)>>
                /\ calls' = called
                /\ i' = i + 1
                /\ UNCHANGED <<fs, errors, faults>>
           ELSE IF name /= new_name
           THEN \E fault \in Faulty :
                  LET r == Guarded(os_rename(fs, file_path, new_path, posix), fault)
                  IN  /\ fs' = r.fs
                      /\ log' = log \o Warnings(name)
                                    \o <<Report("rename", name, new_name, r.done)>>
                      /\ errors' = errors + (IF r.ok THEN 0 ELSE 1)
                      /\ faults' = faults + (IF fault THEN 1 ELSE 0)
                      /\ calls' = called \o Made("rename", file_path, r)
                      /\ i' = NextItem(i, r.ok)
           ELSE /\ log' = log \o Warnings(name) \o <<Report("ok", name, "", FALSE)>>
                /\ calls' = called
                /\ i' = i + 1
                /\ UNCHANGED <<fs, errors, faults>>
    /\ UNCHANGED <<pc, items, entered, steps>>
    /\ UnchangedContents /\ UnchangedRun

\* process_folder_contents entered with the name parsed anew and formatted
EnterContents_reparsed(f, path, name, before) ==
    /\ folder_path' = path
    /\ folder_name' = format_name(extract_title_year(name).title,
                                  extract_title_year(name).year)
    /\ unwanted' = SelectSeq(rglob(f, path), LAMBDA q : is_unwanted(f, q))
    /\ u' = 1
    /\ removed_files' = <<>>
    /\ pc' = "prune"
    /\ entered' = f
    /\ steps' = Append(before, "remove_unwanted_files")
    /\ UNCHANGED <<i, video_files, v, subtitle_files, s>>

\* process_folder_contents(folder_path, is_last, folder_name) up to the start
\* of the loop of remove_unwanted_files, on the file system f; before is what
\* process_folder has done so far
EnterContents(f, path, name, before) ==
    /\ folder_path' = path
    /\ folder_name' = name
    /\ unwanted' = SelectSeq(rglob(f, path), LAMBDA q : is_unwanted(f, q))
    /\ u' = 1
    /\ removed_files' = <<>>
    /\ pc' = "prune"
    /\ entered' = f
    /\ steps' = Append(before, "remove_unwanted_files")
    /\ UNCHANGED <<i, video_files, v, subtitle_files, s>>

\* the return of process_folder to the loop of process_directory
LeaveFolder ==
    /\ pc' = "items"
    /\ i' = i + 1

\* a process_folder that goes on to the contents after a rename that raised
ProceedsAnyway(ok) == TRUE

\* "except Exception as e: print(...); return": process_folder goes on to
\* process_folder_contents only when the rename of the folder did not raise
Proceeds(ok) == ok

process_folder ==
    /\ pc = "items" /\ i <= Len(items)
    /\ is_dir(fs, items[i])
    /\ LET path == items[i]
           name == NameOf(path)
           title_year == extract_title_year(name)
           formatted_name == format_name(title_year.title, title_year.year)
           new_folder_path == Append(Parent(path), formatted_name)
           called == Append(calls, Call("process_folder", path, TRUE))
       IN  IF title_year = NoMatch
           THEN /\ log' = log \o Warnings(name) \o <<Report("noyear", name, "", FALSE)>>
                /\ calls' = called
                /\ UNCHANGED <<fs, errors, faults>>
                /\ EnterContents(fs, path, name, <<>>)
           ELSE IF name /= formatted_name
           THEN \E fault \in Faulty :
                  LET r == Guarded(os_rename(fs, path, new_folder_path, posix), fault)
                  IN  /\ fs' = r.fs
                      /\ log' = log \o Warnings(name)
                                    \o <<Report("rename", name, formatted_name, r.done)>>
                      /\ errors' = errors + (IF r.ok THEN 0 ELSE 1)
                      /\ faults' = faults + (IF fault THEN 1 ELSE 0)
                      /\ calls' = called \o Made("rename", path, r)
                      /\ IF Proceeds(r.ok)
                         THEN EnterContents(r.fs, IF r.done THEN new_folder_path ELSE path,
                                            formatted_name, <<"rename">>)
                         ELSE /\ LeaveFolder
                              /\ steps' = <<"rename">>
                              /\ UNCHANGED entered
                              /\ UnchangedContents
           ELSE /\ log' = log \o Warnings(name) \o <<Report("ok", name, "", FALSE)>>
                /\ calls' = called
                /\ UNCHANGED <<fs, errors, faults>>
                /\ EnterContents(fs, path, formatted_name, <<>>)
    /\ UNCHANGED items
    /\ UnchangedRun

(***************************************************************************)
(* process_folder_contents                                                 *)
(***************************************************************************)

\* one iteration of the loop of remove_unwanted_files
remove_unwanted_files ==
    /\ pc = "prune" /\ u <= Len(unwanted)
    /\ \E fault \in Faulty :
         LET r == Guarded(unlink(fs, unwanted[u]), fault)
         IN  /\ removed_files' = Append(removed_files, unwanted[u])
             /\ log' = Append(log, Report("delete", NameOf(unwanted[u]), "", r.done))
             /\ fs' = r.fs
             /\ errors' = errors + (IF r.ok THEN 0 ELSE 1)
             /\ faults' = faults + (IF fault THEN 1 ELSE 0)
             /\ calls' = calls \o Made("unlink", unwanted[u], r)
             /\ u' = NextItem(u, r.ok)
    /\ UNCHANGED <<pc, items, i, folder_path, folder_name, unwanted,
                   video_files, v, subtitle_files, s, entered, steps>>
    /\ UnchangedRun

\* remove_unwanted_files returns; "Find video files"
find_video_files ==
    /\ pc = "prune" /\ u > Len(unwanted)
    /\ video_files' = SelectSeq(iterdir(fs, folder_path), LAMBDA q : is_video(fs, q))
    /\ v' = 1
    /\ pc' = "videos"
    /\ steps' = Append(steps, "rename_videos")
    /\ UNCHANGED <<fs, items, i, folder_path, folder_name, unwanted, u,
                   removed_files, subtitle_files, s, log, errors, faults,
                   entered, calls>>
    /\ UnchangedRun

\* one iteration of "Process video files"
rename_video ==
    /\ pc = "videos" /\ v <= Len(video_files)
    /\ LET video_file == video_files[v]
           new_video_name == folder_name \o suffix(NameOf(video_file))
           new_video_path == Append(Parent(video_file), new_video_name)
       IN  IF NameOf(video_file) /= new_video_name
           THEN \E fault \in Faulty :
                  LET r == Guarded(os_rename(fs, video_file, new_video_path, posix), fault)
                  IN  /\ fs' = r.fs
                      /\ log' = Append(log, Report("rename", NameOf(video_file),
                                                   new_video_name, r.done))
                      /\ errors' = errors + (IF r.ok THEN 0 ELSE 1)
                      /\ faults' = faults + (IF fault THEN 1 ELSE 0)
                      /\ calls' = calls \o Made("rename", video_file, r)
                      /\ v' = NextItem(v, r.ok)
           ELSE /\ log' = Append(log, Report("ok", NameOf(video_file), "", FALSE))
                /\ v' = v + 1
                /\ UNCHANGED <<fs, errors, faults, calls>>
    /\ UNCHANGED <<pc, items, i, folder_path, folder_name, unwanted, u,
                   removed_files, video_files, subtitle_files, s, entered, steps>>
    /\ UnchangedRun

(***************************************************************************)
(* organize_subtitles                                                      *)
(***************************************************************************)

\* organize_subtitles called for every folder
AnyFolder(videos) == TRUE

\* "if video_files:", the condition of the call of organize_subtitles
HasVideos(videos) == videos /= <<>>

\* "if video_files: self.organize_subtitles(folder_path, folder_name)" up to
\* the loop over subtitle_files[1:]; mkdir is outside any try, so its
\* exception ends the program
organize_subtitles ==
    /\ pc = "videos" /\ v > Len(video_files)
    /\ LET subs == SelectSeq(iterdir(fs, folder_path), LAMBDA q : is_subtitle(fs, q))
           subs_dir == Append(folder_path, "Subs")
       IN  IF ~HasVideos(video_files)
           THEN /\ LeaveFolder
                /\ UNCHANGED <<fs, subtitle_files, s, faults, steps, calls>>
           ELSE /\ subtitle_files' = subs
                /\ steps' = Append(steps, "organize_subtitles")
                /\ IF subs = <<>>
                   THEN /\ LeaveFolder
                        /\ UNCHANGED <<fs, s, faults, calls>>
                   ELSE /\ s' = 2
                        /\ UNCHANGED i
                        /\ IF Len(subs) > 1 /\ ~dry_run
                           THEN \E fault \in Faulty :
                                  LET r == IF fault THEN Failed(fs) ELSE mkdir(fs, subs_dir)
                                  IN  /\ fs' = r.fs
                                      /\ faults' = faults + (IF fault THEN 1 ELSE 0)
                                      /\ calls' = Append(calls, Call("mkdir", subs_dir, r.ok))
                                      /\ pc' = IF r.ok THEN "subs" ELSE "crashed"
                           ELSE /\ pc' = "subs"
                                /\ UNCHANGED <<fs, faults, calls>>
    /\ UNCHANGED <<items, folder_path, folder_name, unwanted, u, removed_files,
                   video_files, v, log, errors, entered>>
    /\ UnchangedRun

\* f"{movie_name}.{i}{sub_file.suffix}" if i > 1 else
\* f"{movie_name}.{sub_file.suffix}", for the k-th of subtitle_files[1:]
SubsName(movie_name, k, sfx) ==
    IF k > 1 THEN movie_name \o "." \o IntStr[k] \o sfx
    ELSE movie_name \o "." \o sfx

\* one iteration of "Move additional subtitles to Subs folder"
move_subtitle ==
    /\ pc = "subs" /\ s <= Len(subtitle_files)
    /\ \E fault \in Faulty :
         LET sub_file == subtitle_files[s]
             new_name == SubsName(folder_name, s - 1, suffix(NameOf(sub_file)))
             new_path == folder_path \o <<"Subs", new_name>>
             r == Guarded(shutil_move(fs, sub_file, new_path, posix), fault)
         IN  /\ fs' = r.fs
             /\ log' = Append(log, Report("move", NameOf(sub_file),
                                          "Subs/" \o new_name, r.done))
             /\ errors' = errors + (IF r.ok THEN 0 ELSE 1)
             /\ faults' = faults + (IF fault THEN 1 ELSE 0)
             /\ calls' = calls \o Made("move", sub_file, r)
             /\ s' = NextItem(s, r.ok)
    /\ UNCHANGED <<pc, items, i, folder_path, folder_name, unwanted, u,
                   removed_files, video_files, v, subtitle_files, entered, steps>>
    /\ UnchangedRun

\* "Rename the main subtitle file to match movie name", and the return
rename_main_subtitle ==
    /\ pc = "subs" /\ s > Len(subtitle_files)
    /\ LET main_sub == subtitle_files[1]
           new_sub_name == folder_name \o suffix(NameOf(main_sub))
           new_sub_path == Append(folder_path, new_sub_name)
       IN  IF NameOf(main_sub) /= new_sub_name
           THEN \E fault \in Faulty :
                  LET r == Guarded(os_rename(fs, main_sub, new_sub_path, posix), fault)
                  IN  /\ fs' = r.fs
                      /\ log' = Append(log, Report("rename", NameOf(main_sub),
                                                   new_sub_name, r.done))
                      /\ errors' = errors + (IF r.ok THEN 0 ELSE 1)
                      /\ faults' = faults + (IF fault THEN 1 ELSE 0)
                      /\ calls' = calls \o Made("rename", main_sub, r)
           ELSE UNCHANGED <<fs, log, errors, faults, calls>>
    /\ LeaveFolder
    /\ UNCHANGED <<items, folder_path, folder_name, unwanted, u, removed_files,
                   video_files, v, subtitle_files, s, entered, steps>>
    /\ UnchangedRun

(***************************************************************************)
(* The program is run twice on the tree: first with the --dry-run flag as  *)
(* given, then, unless an I/O error was injected, without it.              *)
(***************************************************************************)

\* process_directory returns, and formatter.process_directory is called again
run_again ==
    /\ pc = "items" /\ i > Len(items) /\ run = 1 /\ faults = 0
    /\ fs1' = fs
    /\ log1' = log
    /\ run' = 2
    /\ dry_run' = FALSE
    /\ pc' = "start"
    /\ log' = <<>>
    /\ errors' = 0
    /\ calls' = <<>>
    /\ steps' = <<>>
    /\ UNCHANGED <<fs, posix, items, i, faults, fs0, first_dry, entered>>
    /\ UnchangedContents

\* the last process_directory returns
finish ==
    /\ pc = "items" /\ i > Len(items) /\ (run = 2 \/ faults > 0)
    /\ pc' = "done"
    /\ UNCHANGED <<fs, items, i, log, errors, faults, entered, steps, calls>>
    /\ UnchangedContents /\ UnchangedRun

Next ==
    \/ process_directory
    \/ skip_item
    \/ process_file
    \/ process_folder
    \/ remove_unwanted_files
    \/ find_video_files
    \/ rename_video
    \/ organize_subtitles
    \/ move_subtitle
    \/ rename_main_subtitle
    \/ run_again
    \/ finish

Spec == Init /\ [][Next]_vars

(***************************************************************************)
(* What the claims speak of                                                *)
(***************************************************************************)

\* the video files directly in folder p ("Find video files")
VideosIn(f, p) == {q \in Children(f, p) : is_video(f, q)}

\* the subtitle files directly in folder p ("Find all subtitle files")
SubtitlesIn(f, p) == {q \in Children(f, p) : is_subtitle(f, q)}

\* the files at any depth below p
FilesUnder(f, p) == {q \in DOMAIN f : IsUnder(q, p) /\ f[q].kind = "file"}

\* how often op was called on src in this run
Count(op, src) ==
    Cardinality({k \in 1..Len(calls) : calls[k].op = op /\ calls[k].src = src})

\* the call of op on src raised
Raised(op, src) == \E k \in 1..Len(calls) : calls[k] = Call(op, src, FALSE)

(***************************************************************************)
(* C1                                                                      *)
(***************************************************************************)

\* C1: while process_folder_contents renames the videos of a folder, no video
\* file is overwritten: the folder holds as many video files as were listed
\* before the first rename
C1_NoVideoOverwritten ==
    pc = "videos" => Cardinality(VideosIn(fs, folder_path)) = Len(video_files)

(***************************************************************************)
(* C2                                                                      *)
(***************************************************************************)

\* a deleted file three levels down, next to a video that was kept
C2_Witness ==
    /\ pc = "prune" /\ u > Len(unwanted) /\ ~dry_run
    /\ \E q \in FilesUnder(entered, folder_path) :
          /\ Len(q) > Len(folder_path) + 2
          /\ lower[suffix(NameOf(q))] = ".rar"
          /\ q \notin DOMAIN fs
          /\ is_video(fs, Append(Parent(q), "k.mkv"))

\* C2: when the loop of remove_unwanted_files(directory) has ended in a run
\* that is not dry, every file that was under the directory at any depth with
\* a lowercased extension in the unwanted set is gone unless its unlink raised,
\* and every other entry of the tree, video and subtitle files among them, is
\* still there as it was
C2_PrunesExactlyUnwanted ==
    (pc = "prune" /\ u > Len(unwanted) /\ ~dry_run) =>
        /\ \A q \in FilesUnder(entered, folder_path) :
              lower[suffix(NameOf(q))] \in unwanted_extensions
                  => (q \notin DOMAIN fs \/ Raised("unlink", q))
        /\ \A q \in DOMAIN entered :
              ~(/\ q \in FilesUnder(entered, folder_path)
                /\ lower[suffix(NameOf(q))] \in unwanted_extensions)
                  => (q \in DOMAIN fs /\ fs[q] = entered[q])
        /\ DOMAIN fs \subseteq DOMAIN entered

(***************************************************************************)
(* C3                                                                      *)
(***************************************************************************)

\* C3: after a complete run that is not dry, a second run of process_directory
\* performs no rename, move or delete, and leaves the tree as the first run
\* left it
C3_SecondRunChangesNothing ==
    (pc = "done" /\ run = 2 /\ ~first_dry) =>
        /\ fs = fs1
        /\ \A k \in 1..Len(log) : ~log[k].done

(***************************************************************************)
(* C4                                                                      *)
(***************************************************************************)

\* C4: with two or more subtitles in the folder and no call failing, the
\* second subtitle in listing order is moved to Subs/{movie_name}{ext}
C4_SecondSubtitleName ==
    (pc = "subs" /\ s > 2 /\ ~dry_run /\ errors = 0) =>
        is_file(fs, folder_path
                    \o <<"Subs", folder_name \o suffix(NameOf(subtitle_files[2]))>>)

(***************************************************************************)
(* C5                                                                      *)
(***************************************************************************)

\* process_folder has returned from a folder whose subtitles it organised
Organised ==
    pc = "items" /\ steps /= <<>> /\ steps[Len(steps)] = "organize_subtitles"

\* three subtitles organised: one left in the folder, two under Subs/
C5_Witness ==
    /\ Organised /\ ~dry_run /\ errors = 0
    /\ Len(subtitle_files) >= 3
    /\ Cardinality(SubtitlesIn(fs, folder_path)) = 1
    /\ Cardinality(FilesUnder(fs, Append(folder_path, "Subs"))) >= 2

\* C5: after a folder that has a video has been processed in a run that is not
\* dry and in which no call has failed, at most one subtitle file is directly
\* in the folder, its stem is the name the folder's videos got, and every
\* other subtitle that was directly in the folder is under the folder's Subs/
C5_OnePrimarySubtitle ==
    (Organised /\ ~dry_run /\ errors = 0) =>
        /\ Cardinality(SubtitlesIn(fs, folder_path)) <= 1
        /\ \A q \in SubtitlesIn(fs, folder_path) : stem(NameOf(q)) = folder_name
        /\ \A q \in VideosIn(fs, folder_path) : stem(NameOf(q)) = folder_name
        /\ \A k \in 2..Len(subtitle_files) :
              \E q \in FilesUnder(fs, Append(folder_path, "Subs")) :
                  fs[q].id = entered[subtitle_files[k]].id

(***************************************************************************)
(* C6                                                                      *)
(***************************************************************************)

\* a finished dry run that has reported a rename, a move and a delete
C6_Witness ==
    /\ run = 1 /\ dry_run /\ pc = "items" /\ i > Len(items)
    /\ \A op \in {"rename", "move", "delete"} :
          \E k \in 1..Len(log) : log[k].op = op
    /\ Len(subtitle_files) > 1

\* C6: in every state of a dry run the file system is what it was at the start
C6_DryRunChangesNothing == (run = 1 /\ dry_run) => fs = fs0

(***************************************************************************)
(* C7                                                                      *)
(***************************************************************************)

\* C7: what a dry run reports (each rename old -> new, move, delete, "already
\* formatted" and "no year found", in order) is what a real run on the same
\* tree reports
C7_DryRunReportsRealRun ==
    (pc = "done" /\ run = 2 /\ first_dry) =>
        /\ Len(log) = Len(log1)
        /\ \A k \in 1..Len(log) :
              /\ k <= Len(log1)
              /\ log[k].op = log1[k].op
              /\ log[k].old = log1[k].old
              /\ log[k].new = log1[k].new

(***************************************************************************)
(* C8                                                                      *)
(***************************************************************************)

\* the tree the current run started from
StartFs == IF run = 1 THEN fs0 ELSE fs1

\* the rename of the first video raised, and the second was renamed after it
C8_Witness ==
    /\ pc = "videos" /\ v > Len(video_files) /\ Len(video_files) >= 2
    /\ Raised("rename", video_files[1])
    /\ \E k \in 1..Len(calls) : calls[k] = Call("rename", video_files[2], TRUE)

\* C8: a rename, move or delete that raises does not end its loop, and no call
\* is repeated: when a loop has ended, every item of its list has been
\* attempted exactly once (every unwanted file, every video that is not yet
\* named after the folder, every subtitle after the first, then the first,
\* every top-level file and folder); only a failed mkdir ends the run
C8_EveryItemAttemptedOnce ==
    ~dry_run =>
        /\ (pc = "prune" /\ u > Len(unwanted)) =>
              \A k \in 1..Len(unwanted) : Count("unlink", unwanted[k]) = 1
        /\ (pc = "videos" /\ v > Len(video_files)) =>
              \A k \in 1..Len(video_files) :
                  Count("rename", video_files[k])
                      = IF NameOf(video_files[k])
                              = folder_name \o suffix(NameOf(video_files[k]))
                        THEN 0 ELSE 1
        /\ (pc = "subs" /\ s > Len(subtitle_files)) =>
              \A k \in 2..Len(subtitle_files) : Count("move", subtitle_files[k]) = 1
        /\ (Organised /\ subtitle_files /= <<>>) =>
              Count("rename", subtitle_files[1])
                  = IF NameOf(subtitle_files[1])
                          = folder_name \o suffix(NameOf(subtitle_files[1]))
                    THEN 0 ELSE 1
        /\ (pc = "items" /\ i > Len(items)) =>
              \A k \in 1..Len(items) :
                  Count("process_file", items[k]) + Count("process_folder", items[k])
                      = IF StartFs[items[k]].kind = "link" THEN 0 ELSE 1
        /\ pc = "crashed" =>
              calls[Len(calls)] = Call("mkdir", Append(folder_path, "Subs"), FALSE)

(***************************************************************************)
(* C9                                                                      *)
(***************************************************************************)

ThreeSteps == <<"remove_unwanted_files", "rename_videos", "organize_subtitles">>

\* what process_folder has done after the rename of the folder itself
Descent == IF steps /= <<>> /\ steps[1] = "rename" THEN Tail(steps) ELSE steps

\* process_folder has returned from a folder it descended into
Returned == pc = "items" /\ Descent /= <<>>

\* the calls made for the folder process_folder was last called on
FolderCalls ==
    LET from == CHOOSE k \in 0..Len(calls) :
                    /\ k > 0 => calls[k].op = "process_folder"
                    /\ \A j \in (k + 1)..Len(calls) : calls[j].op /= "process_folder"
        to == CHOOSE k \in from..Len(calls) :
                    /\ \A j \in (from + 1)..k : calls[j].op /= "process_file"
                    /\ k < Len(calls) => calls[k + 1].op = "process_file"
    IN  SubSeq(calls, from + 1, to)

\* the step a file-system call belongs to: 0 the rename of the folder, 1 the
\* pruning, 2 the renaming of videos, 3 the organising of subtitles
StepOf(c) ==
    CASE c.op = "unlink" -> 1
      [] c.op = "rename" /\ lower[suffix(NameOf(c.src))] \in video_extensions -> 2
      [] c.op = "rename" /\ lower[suffix(NameOf(c.src))] \in subtitle_extensions -> 3
      [] c.op \in {"mkdir", "move"} -> 3
      [] OTHER -> 0

\* C9 as stated: process_folder performs the three steps in every folder it
\* descends into, with or without a video
C9_ThreeStepsInEveryFolder == Returned => Descent = ThreeSteps

\* a folder without a video, left with its two subtitles where they were
C9_Witness ==
    /\ Returned /\ ~dry_run /\ video_files = <<>>
    /\ Descent = SubSeq(ThreeSteps, 1, 2)
    /\ Cardinality(SubtitlesIn(fs, folder_path)) >= 2

\* C9 amended: the steps come in the order prune, rename videos, organise
\* subtitles, after the rename of the folder itself, and so do their
\* file-system calls; the subtitles are organised only in a folder that has a
\* direct-child video
C9_StepsInOrder ==
    /\ Len(Descent) <= 3 /\ Descent = SubSeq(ThreeSteps, 1, Len(Descent))
    /\ Returned => Descent = IF video_files /= <<>> THEN ThreeSteps
                             ELSE SubSeq(ThreeSteps, 1, 2)
    /\ \A j, k \in 1..Len(FolderCalls) :
          j < k => StepOf(FolderCalls[j]) <= StepOf(FolderCalls[k])

(***************************************************************************)
(* C10                                                                     *)
(***************************************************************************)

\* extract_title_year finds no year in the name of the folder being processed
Unparsed == folder_path /= <<>> /\ extract_title_year(NameOf(folder_path)) = NoMatch

YearsIn(name) ==
    {SubSeq(name, k + 2, k + 5) : k \in
        {j \in 1..(Len(name) - 6) :
            /\ SubSeq(name, j, j + 1) = " (" /\ Ch(name, j + 6) = ")"
            /\ SubSeq(name, j + 2, j + 3) \in {"19", "20"}
            /\ IsDigit(Ch(name, j + 4)) /\ IsDigit(Ch(name, j + 5))}}

\* no pattern of release_patterns matches anywhere in title
NoiseFree(title) ==
    \A p \in 1..Len(release_patterns) : re_sub(release_patterns[p], title) = title

\* the folder process_folder was last called on, as it was named then
CalledFolder ==
    calls[CHOOSE k \in 1..Len(calls) :
              /\ calls[k].op = "process_folder"
              /\ \A j \in (k + 1)..Len(calls) : calls[j].op /= "process_folder"].src

\* C11: when process_folder has parsed a folder name of the form
\* <anything> (YYYY)<anything>, extract_title_year has returned a pair, its
\* year is YYYY, the folder's files are named after that pair, and no noise
\* pattern matches in its title any more
C11_TitleFreeOfNoise ==
    (pc = "prune" /\ u = 1 /\ YearsIn(NameOf(CalledFolder)) /= {}) =>
        LET title_year == extract_title_year(NameOf(CalledFolder))
        IN  /\ title_year /= NoMatch
            /\ title_year.year \in YearsIn(NameOf(CalledFolder))
            /\ folder_name = format_name(title_year.title, title_year.year)
            /\ NoiseFree(title_year.title)

(***************************************************************************)
(* C12                                                                     *)
(***************************************************************************)

\* the calls of process_file and process_folder of this run, in order
Handled == SelectSeq(calls, LAMBDA c : c.op \in {"process_file", "process_folder"})

\* the files and folders directly in the root when the run started
TopLevel == {p \in DOMAIN StartFs : Len(p) = 1 /\ StartFs[p].kind \in {"dir", "file"}}

\* a run has handled a folder and then the files of the root, a.txt before
\* B (1999).mkv before clip.mkv
C12_Witness ==
    /\ pc = "items" /\ i > Len(items) /\ ~dry_run
    /\ Len(Handled) >= 5
    /\ Handled[1].op = "process_folder"
    /\ \E j, k, m \in 1..Len(Handled) :
          /\ j < k /\ k < m
          /\ Handled[j].src = <<"a.txt">>
          /\ Handled[k].src = <<"B (1999).mkv">>
          /\ Handled[m].src = <<"clip.mkv">>

\* C12: the list of items is made once, from the root as it was when the run
\* started; process_folder is called on what was a folder then and
\* process_file on what was a file then; no file is handled before a folder;
\* folders among themselves and files among themselves are handled in the
\* order of their lowercased names; at the end every file and folder of the
\* root has been handled
C12_FoldersThenFiles ==
    /\ pc /= "start" =>
          /\ Len(items) = Cardinality(Children(StartFs, Base))
          /\ \A k \in 1..Len(items) : Parent(items[k]) = Base /\ items[k] \in DOMAIN StartFs
    /\ \A k \in 1..Len(Handled) :
          /\ Handled[k].src \in TopLevel
          /\ StartFs[Handled[k].src].kind
                = IF Handled[k].op = "process_folder" THEN "dir" ELSE "file"
    /\ \A j, k \in 1..Len(Handled) :
          j < k =>
              /\ ~(Handled[j].op = "process_file" /\ Handled[k].op = "process_folder")
              /\ Handled[j].op = Handled[k].op =>
                    ~StrLess[lower[NameOf(Handled[k].src)], lower[NameOf(Handled[j].src)]]
    /\ (pc = "items" /\ i > Len(items)) =>
          {Handled[k].src : k \in 1..Len(Handled)} = TopLevel

(***************************************************************************)
(* C13                                                                     *)
(***************************************************************************)

\* the files under the folder that the pruning has deleted
Deleted == {q \in FilesUnder(entered, folder_path) : q \notin DOMAIN fs}

\* C13: when remove_unwanted_files returns, the list it returns holds exactly
\* the paths that were deleted: no path whose unlink raised or, in a dry run,
\* was not made, and every path that is gone
C13_ReturnsDeletedPaths ==
    (pc = "prune" /\ u > Len(unwanted)) =>
        {removed_files[k] : k \in 1..Len(removed_files)} = Deleted

(***************************************************************************)
(* C14                                                                     *)
(***************************************************************************)

\* C14: when process_directory has handled all its items, every file and
\* folder that was directly in the root at the start is still directly in the
\* root, under its old or its canonical name, as the same file or folder
C14_TopLevelEntriesSurvive ==
    (pc = "items" /\ i > Len(items)) =>
        \A p \in TopLevel : \E q \in DOMAIN fs : Len(q) = 1 /\ fs[q] = StartFs[p]

(***************************************************************************)
(* C15                                                                     *)
(***************************************************************************)

\* the number of subtitle files directly in folder p and directly in p/Subs
SubtitleCount(f, p) ==
    Cardinality(SubtitlesIn(f, p)) + Cardinality(SubtitlesIn(f, Append(p, "Subs")))

\* C15: when organize_subtitles has returned, the folder and its Subs/ hold
\* together as many subtitle files as when process_folder_contents was
\* entered (the pruning and the renaming of videos touch no subtitle)
C15_NoSubtitleLost ==
    Organised => SubtitleCount(fs, folder_path) = SubtitleCount(entered, folder_path)

(***************************************************************************)
(* C16                                                                     *)
(***************************************************************************)

\* the folders of the root whose rename raised in this run
FailedFolders ==
    {p \in DOMAIN StartFs : Len(p) = 1 /\ StartFs[p].kind = "dir" /\ Raised("rename", p)}

\* where the rename of p that raised is in calls, and where p is in items
FailedAt(p) == CHOOSE k \in 1..Len(calls) : calls[k] = Call("rename", p, FALSE)
ItemOf(p) == CHOOSE n \in 1..Len(items) : items[n] = p

\* the rename of a folder with a video and two subtitles raised, the folder
\* is as it was, and the files of the root were handled after it
C16_Witness ==
    /\ pc = "items" /\ i > Len(items) /\ ~dry_run
    /\ \E p \in FailedFolders :
          /\ VideosIn(fs, p) /= {}
          /\ Cardinality(SubtitlesIn(fs, p)) >= 2
          /\ \E j \in (FailedAt(p) + 1)..Len(calls) : calls[j].op = "process_file"

\* C16: in a run that is not dry, once the rename of a top-level folder has
\* raised, the error has been reported, the folder and everything under it
\* are as at the start of the run, no call has been made on anything under
\* it, and process_directory has gone on to the item after it: the next call
\* of a handler is on the next file or folder of the sorted list
C16_FailedFolderUntouched ==
    ~dry_run =>
        \A p \in FailedFolders :
            /\ errors >= 1
            /\ \E j \in 1..Len(log) :
                  log[j].op = "rename" /\ log[j].old = NameOf(p) /\ ~log[j].done
            /\ p \in DOMAIN fs /\ fs[p] = StartFs[p]
            /\ \A q \in DOMAIN StartFs \cup DOMAIN fs :
                  IsUnder(q, p) =>
                      q \in DOMAIN fs /\ q \in DOMAIN StartFs /\ fs[q] = StartFs[q]
            /\ \A j \in 1..Len(calls) : ~IsUnder(calls[j].src, p)
            /\ FailedAt(p) > 1
            /\ calls[FailedAt(p) - 1] = Call("process_folder", p, TRUE)
            /\ IF FailedAt(p) = Len(calls)
               THEN pc \in {"items", "done"} /\ i > ItemOf(p)
               ELSE /\ calls[FailedAt(p) + 1].op \in {"process_file", "process_folder"}
                    /\ \E m \in (ItemOf(p) + 1)..Len(items) :
                          /\ calls[FailedAt(p) + 1].src = items[m]
                          /\ \A b \in (ItemOf(p) + 1)..(m - 1) :
                                StartFs[items[b]].kind = "link"

====
